---- MODULE Spec2Model ----
(***************************************************************************)
(* Model of the constraint layer of sudoku-solver:                         *)
(*   src/src/constraints/typedefs.rs  Position, CellPosition, Group,       *)
(*                                    Constraint / GroupConstraint,        *)
(*                                    PuzzleBuilder, Puzzle, Solution      *)
(*   src/src/constraints/solve.rs     solve                                *)
(*                                                                         *)
(* Two specifications share the variables:                                 *)
(*   Spec    the life of a puzzle: PuzzleBuilder calls or Puzzle::standard,*)
(*           then calls of solve;                                          *)
(*   SpecFn  the pure functions (Group constructors, get_group, apply):    *)
(*           Init draws one call with its arguments, the action of that    *)
(*           function evaluates it.                                        *)
(***************************************************************************)
EXTENDS Integers, Sequences, FiniteSets

VARIABLES pc, builder, calls, origin, puzzle, results, call, done, retGroup, retMap

vars == <<pc, builder, calls, origin, puzzle, results, call, done, retGroup, retMap>>

(* ------------------------------ bounds -------------------------------- *)

\* Largest u8 argument handed to Group::row / Group::col (the grid ends at 8).
MaxCoord == 10

\* Largest u8 value handed to Constraint::apply.
MaxValue == 3

\* Largest clue value placed on the free clue cell (0 stands for "no clue").
MaxClueValue == 9

\* Most add_*_groups calls made on one PuzzleBuilder.
MaxCalls == 4

\* Most calls of solve on one puzzle.
MaxRuns == 2

(* ------------------------- program constants -------------------------- *)

\* The exclusive end of every coordinate loop, `0..9`.
GridSize == 9

\* The exclusive end of the loops inside a box, `0..3`.
CellSize == 3

\* The row of the anti diagonal at column 0, `8`.
LastCoord == 8

U8Max == 255

(* ------------------------------ Position ------------------------------ *)

Position(r, c) == [row |-> r, col |-> c]

\* The positions of the 9x9 grid.
GridPositions == {Position(r, c) : r \in 0..(GridSize - 1), c \in 0..(GridSize - 1)}

\* i8 -> u8 `try_into().unwrap()`: the value when it fits, -1 for the panic.
TryIntoU8(x) == IF x >= 0 /\ x <= U8Max THEN x ELSE -1

(* ---------------------------- CellPosition ---------------------------- *)

CellPositions == <<"START", "MIDDLE", "END">>

offset(cp) ==
  CASE cp = "START" -> 0
    [] cp = "MIDDLE" -> 3
    [] cp = "END" -> 6

for_coord(coord) ==
  CASE coord \in 0..2 -> "START"
    [] coord \in 3..5 -> "MIDDLE"
    [] coord \in 6..8 -> "END"
    [] OTHER -> "PANIC"

for_position(pos) == <<for_coord(pos.row), for_coord(pos.col)>>

(* -------------------------------- Group ------------------------------- *)

Group(ps) == [positions |-> ps]

Group_row(row) ==
  Group([i \in 1..GridSize |-> Position(row, i - 1)])

Group_col(col) ==
  Group([i \in 1..GridSize |-> Position(i - 1, col)])

Group_cell(row_pos, col_pos) ==
  Group([i \in 1..(CellSize * CellSize) |->
           Position(offset(row_pos) + ((i - 1) \div CellSize),
                    offset(col_pos) + ((i - 1) % CellSize))])

Group_diag(top) ==
  LET off == IF top THEN 0 ELSE LastCoord
      dir == IF top THEN 1 ELSE -1
  IN  Group([i \in 1..GridSize |->
               Position(TryIntoU8(off + dir * (i - 1)), TryIntoU8(i - 1))])

(* ----------------------------- constraints ---------------------------- *)

ConstraintKinds == {"Row", "Column", "Cell", "Diagonal"}

RowConstraint_get_group(pos) == Group_row(pos.row)

ColumnConstraint_get_group(pos) == Group_col(pos.col)

CellConstraint_get_group(pos) ==
  LET cp == for_position(pos)
  IN  Group_cell(cp[1], cp[2])

\* DiagonalConstraint::get_group with the anti diagonal tested one column off.
DiagonalConstraint_get_group_off_by_one(pos) ==
  LET p1 == IF pos.row = pos.col THEN Group_diag(TRUE).positions ELSE <<>>
      p2 == IF pos.row = GridSize - pos.col
              THEN p1 \o Group_diag(FALSE).positions ELSE p1
  IN  Group(p2)

\* `8 - pos.col` is a u8 subtraction; it is evaluated for columns 0..8 only.
DiagonalConstraint_get_group(pos) ==
  LET p1 == IF pos.row = pos.col THEN Group_diag(TRUE).positions ELSE <<>>
      p2 == IF pos.row = LastCoord - pos.col
              THEN p1 \o Group_diag(FALSE).positions ELSE p1
  IN  Group(p2)

\* `Self::get_group(pos)` of the blanket impl, by the implementing type.
get_group(kind, pos) ==
  CASE kind = "Row" -> RowConstraint_get_group(pos)
    [] kind = "Column" -> ColumnConstraint_get_group(pos)
    [] kind = "Cell" -> CellConstraint_get_group(pos)
    [] kind = "Diagonal" -> DiagonalConstraint_get_group(pos)

EmptyMap == [p \in {} |-> <<>>]

\* HashMap::insert: the key is added, or its value replaced.
insert(map, k, v) == [p \in DOMAIN map \cup {k} |-> IF p = k THEN v ELSE map[p]]

RECURSIVE apply_loop(_, _, _, _, _)
apply_loop(positions, i, map, value, pos) ==
  IF i > Len(positions) THEN map
  ELSE apply_loop(positions, i + 1,
                  IF positions[i] # pos THEN insert(map, positions[i], <<value>>)
                  ELSE map,
                  value, pos)

\* apply without the `group_pos != pos` test.
apply_unfiltered(kind, value, pos) ==
  LET positions == get_group(kind, pos).positions
  IN  [p \in {positions[i] : i \in DOMAIN positions} |-> <<value>>]

apply(kind, value, pos) ==
  apply_loop(get_group(kind, pos).positions, 1, EmptyMap, value, pos)

(* ---------------------------- PuzzleBuilder --------------------------- *)

EmptyClues == [p \in {} |-> 0]

PuzzleBuilder_new == [groups |-> <<>>, constraints |-> <<>>, clues |-> EmptyClues]

add_group(b, g) == [b EXCEPT !.groups = Append(@, g)]

RECURSIVE add_row_loop(_, _)
add_row_loop(b, row) ==
  IF row >= GridSize THEN b ELSE add_row_loop(add_group(b, Group_row(row)), row + 1)

add_row_groups(b) == add_row_loop(b, 0)

RECURSIVE add_col_loop(_, _)
add_col_loop(b, col) ==
  IF col >= GridSize THEN b ELSE add_col_loop(add_group(b, Group_col(col)), col + 1)

\* add_col_groups pushing the rows a second time.
add_col_groups_as_rows(b) == add_row_loop(b, 0)

add_col_groups(b) == add_col_loop(b, 0)

RECURSIVE add_cell_loop(_, _, _)
add_cell_loop(b, i, j) ==
  IF i > Len(CellPositions) THEN b
  ELSE IF j > Len(CellPositions) THEN add_cell_loop(b, i + 1, 1)
  ELSE add_cell_loop(add_group(b, Group_cell(CellPositions[i], CellPositions[j])), i, j + 1)

add_cell_groups(b) == add_cell_loop(b, 1, 1)

add_diag_groups(b) == add_group(add_group(b, Group_diag(TRUE)), Group_diag(FALSE))

\* HashMap::extend: every entry of `clues` is inserted, replacing an equal key.
add_clues(b, clues) ==
  [b EXCEPT !.clues = [p \in DOMAIN @ \cup DOMAIN clues |->
                         IF p \in DOMAIN clues THEN clues[p] ELSE @[p]]]

build(b) == [groups |-> b.groups, constraints |-> b.constraints, clues |-> b.clues]

Puzzle_standard(clues) ==
  build(add_clues(add_cell_groups(add_col_groups(add_row_groups(PuzzleBuilder_new))), clues))

(* -------------------------------- solve ------------------------------- *)

\* solve answering from what an earlier call left behind.
solve_stateful(p) ==
  [puzzle |-> p, elements |-> IF results = <<>> THEN EmptyClues ELSE p.clues]

solve(p) == [puzzle |-> p, elements |-> EmptyClues]

(* ------------------------------- inputs ------------------------------- *)

\* The clue mappings handed to add_clues and Puzzle::standard: the empty one, and
\* the clues 1..8 on the first eight cells of row 0 with or without one more clue
\* v on cell (1, 8).  v in 1..6 repeats no digit of a group; v = 7 and v = 8
\* repeat a digit of the top right box; v = 9 repeats none and leaves cell (0, 8)
\* without a candidate.
BaseClues == [p \in {Position(0, c) : c \in 0..7} |-> p.col + 1]

FreeCell == Position(1, 8)

WithFree(v) ==
  IF v = 0 THEN BaseClues
  ELSE [p \in DOMAIN BaseClues \cup {FreeCell} |-> IF p = FreeCell THEN v ELSE BaseClues[p]]

ClueMaps == {EmptyClues} \cup {WithFree(v) : v \in 0..MaxClueValue}

NoCall == [fn |-> "none"]

NoGroup == Group(<<>>)

(* --------------------- Spec: the life of a puzzle --------------------- *)

Init ==
  /\ pc = "start"
  /\ builder = PuzzleBuilder_new
  /\ calls = 0
  /\ origin = "none"
  /\ puzzle = build(PuzzleBuilder_new)
  /\ results = <<>>
  /\ call = NoCall
  /\ done = FALSE
  /\ retGroup = NoGroup
  /\ retMap = EmptyMap

FnUnchanged == UNCHANGED <<call, done, retGroup, retMap>>

New ==
  /\ pc = "start"
  /\ pc' = "building"
  /\ builder' = PuzzleBuilder_new
  /\ UNCHANGED <<calls, origin, puzzle, results>>
  /\ FnUnchanged

AddRowGroups ==
  /\ pc = "building"
  /\ calls < MaxCalls
  /\ builder' = add_row_groups(builder)
  /\ calls' = calls + 1
  /\ UNCHANGED <<pc, origin, puzzle, results>>
  /\ FnUnchanged

AddColGroups ==
  /\ pc = "building"
  /\ calls < MaxCalls
  /\ builder' = add_col_groups(builder)
  /\ calls' = calls + 1
  /\ UNCHANGED <<pc, origin, puzzle, results>>
  /\ FnUnchanged

AddCellGroups ==
  /\ pc = "building"
  /\ calls < MaxCalls
  /\ builder' = add_cell_groups(builder)
  /\ calls' = calls + 1
  /\ UNCHANGED <<pc, origin, puzzle, results>>
  /\ FnUnchanged

AddDiagGroups ==
  /\ pc = "building"
  /\ calls < MaxCalls
  /\ builder' = add_diag_groups(builder)
  /\ calls' = calls + 1
  /\ UNCHANGED <<pc, origin, puzzle, results>>
  /\ FnUnchanged

AddClues ==
  /\ pc = "building"
  /\ \E clues \in ClueMaps : builder' = add_clues(builder, clues)
  /\ UNCHANGED <<pc, calls, origin, puzzle, results>>
  /\ FnUnchanged

\* build takes the builder by value: the builder is gone afterwards.
Build ==
  /\ pc = "building"
  /\ pc' = "built"
  /\ puzzle' = build(builder)
  /\ origin' = "builder"
  /\ builder' = PuzzleBuilder_new
  /\ UNCHANGED <<calls, results>>
  /\ FnUnchanged

Standard ==
  /\ pc = "start"
  /\ pc' = "built"
  /\ \E clues \in ClueMaps : puzzle' = Puzzle_standard(clues)
  /\ origin' = "standard"
  /\ UNCHANGED <<builder, calls, results>>
  /\ FnUnchanged

\* solve takes the puzzle by value; a further call is a call on an equal puzzle.
Solve ==
  /\ pc = "built"
  /\ Len(results) < MaxRuns
  /\ results' = Append(results, solve(puzzle))
  /\ UNCHANGED <<pc, builder, calls, origin, puzzle>>
  /\ FnUnchanged

Next ==
  \/ New
  \/ AddRowGroups
  \/ AddColGroups
  \/ AddCellGroups
  \/ AddDiagGroups
  \/ AddClues
  \/ Build
  \/ Standard
  \/ Solve

Spec == Init /\ [][Next]_vars

(* -------------------- SpecFn: the pure functions ---------------------- *)

CallInputs ==
  {[fn |-> "row", row |-> r] : r \in 0..MaxCoord}
    \cup {[fn |-> "col", col |-> c] : c \in 0..MaxCoord}
    \cup {[fn |-> "cell", row_pos |-> CellPositions[i], col_pos |-> CellPositions[j]] :
            i \in 1..3, j \in 1..3}
    \cup {[fn |-> "diag", top |-> t] : t \in BOOLEAN}
    \cup {[fn |-> "get_group", kind |-> k, pos |-> p] :
            k \in ConstraintKinds, p \in GridPositions}
    \cup {[fn |-> "apply", kind |-> k, value |-> v, pos |-> p] :
            k \in ConstraintKinds, v \in 0..MaxValue, p \in GridPositions}

InitFn ==
  /\ pc = "start"
  /\ builder = PuzzleBuilder_new
  /\ calls = 0
  /\ origin = "none"
  /\ puzzle = build(PuzzleBuilder_new)
  /\ results = <<>>
  /\ call \in CallInputs
  /\ done = FALSE
  /\ retGroup = NoGroup
  /\ retMap = EmptyMap

PuzzleUnchanged == UNCHANGED <<pc, builder, calls, origin, puzzle, results>>

CallGroupRow ==
  /\ ~done /\ call.fn = "row"
  /\ retGroup' = Group_row(call.row)
  /\ done' = TRUE
  /\ UNCHANGED <<call, retMap>>
  /\ PuzzleUnchanged

CallGroupCol ==
  /\ ~done /\ call.fn = "col"
  /\ retGroup' = Group_col(call.col)
  /\ done' = TRUE
  /\ UNCHANGED <<call, retMap>>
  /\ PuzzleUnchanged

CallGroupCell ==
  /\ ~done /\ call.fn = "cell"
  /\ retGroup' = Group_cell(call.row_pos, call.col_pos)
  /\ done' = TRUE
  /\ UNCHANGED <<call, retMap>>
  /\ PuzzleUnchanged

CallGroupDiag ==
  /\ ~done /\ call.fn = "diag"
  /\ retGroup' = Group_diag(call.top)
  /\ done' = TRUE
  /\ UNCHANGED <<call, retMap>>
  /\ PuzzleUnchanged

CallGetGroup ==
  /\ ~done /\ call.fn = "get_group"
  /\ retGroup' = get_group(call.kind, call.pos)
  /\ done' = TRUE
  /\ UNCHANGED <<call, retMap>>
  /\ PuzzleUnchanged

CallApply ==
  /\ ~done /\ call.fn = "apply"
  /\ retMap' = apply(call.kind, call.value, call.pos)
  /\ done' = TRUE
  /\ UNCHANGED <<call, retGroup>>
  /\ PuzzleUnchanged

NextFn ==
  \/ CallGroupRow
  \/ CallGroupCol
  \/ CallGroupCell
  \/ CallGroupDiag
  \/ CallGetGroup
  \/ CallApply

SpecFn == InitFn /\ [][NextFn]_vars

(* =============================== claims =============================== *)

Digits == 1..9

Range(seq) == {seq[i] : i \in DOMAIN seq}

NoRepeat(seq) == \A i, j \in DOMAIN seq : seq[i] = seq[j] => i = j

RowOf(r) == {p \in GridPositions : p.row = r}

ColOf(c) == {p \in GridPositions : p.col = c}

BoxOf(br, bc) == {p \in GridPositions : p.row \div 3 = br /\ p.col \div 3 = bc}

MainDiagonal == {p \in GridPositions : p.row = p.col}

AntiDiagonal == {p \in GridPositions : p.row + p.col = 8}

SameBox(p, q) == p.row \div 3 = q.row \div 3 /\ p.col \div 3 = q.col \div 3

\* p and q lie in one row, one column or one box.
Peers(p, q) == p # q /\ (p.row = q.row \/ p.col = q.col \/ SameBox(p, q))

\* Two different positions of one row, column or box carry equal clues.
DuplicateClue(clues) ==
  \E p, q \in DOMAIN clues : Peers(p, q) /\ clues[p] = clues[q]

\* Some cell without a clue sees every digit among the clues of its peers: no
\* complete assignment satisfies the uniqueness of its row, column and box.
DeadCell(clues) ==
  \E p \in GridPositions \ DOMAIN clues :
    \A d \in Digits : \E q \in DOMAIN clues : Peers(p, q) /\ clues[q] = d

SolvedFromStandard == pc = "built" /\ origin = "standard" /\ results # <<>>

\* C1 (as claimed): every result solve returns for a puzzle of Puzzle::standard
\* holds, on each group of the puzzle, exactly the digits 1..9, none repeated.
C1_GroupsHoldAllDigits ==
  SolvedFromStandard =>
    \A i \in DOMAIN results :
      LET el == results[i].elements
          gs == results[i].puzzle.groups
      IN  \A g \in DOMAIN gs :
            /\ Range(gs[g].positions) \subseteq DOMAIN el
            /\ {el[p] : p \in Range(gs[g].positions) \cap DOMAIN el} = Digits
            /\ \A p, q \in Range(gs[g].positions) \cap DOMAIN el : el[p] = el[q] => p = q

\* C2 (as claimed): every result solve returns maps each clue position to its
\* clue digit.
C2_CluesPreserved ==
  SolvedFromStandard =>
    \A i \in DOMAIN results :
      LET el == results[i].elements
          cl == results[i].puzzle.clues
      IN  \A p \in DOMAIN cl : p \in DOMAIN el /\ el[p] = cl[p]

\* C3 (as claimed): Puzzle::standard yields no Puzzle (and so solve gets none)
\* from clues that repeat a digit within a row, column or box.
C3_DuplicateCluesRejected ==
  (pc = "built" /\ origin = "standard") => ~DuplicateClue(puzzle.clues)

\* C4 (as claimed): for clues without a duplicate that admit no complete
\* assignment, solve returns no solved result.
C4_UnsatisfiableNeverSolved ==
  (pc = "built" /\ origin = "standard"
     /\ ~DuplicateClue(puzzle.clues) /\ DeadCell(puzzle.clues))
    => results = <<>>

PositionSet(g) == Range(g.positions)

StandardGroups(gs) ==
  /\ Len(gs) = 27
  /\ \A i \in 0..8 :
       /\ PositionSet(gs[i + 1]) = RowOf(i)
       /\ PositionSet(gs[i + 10]) = ColOf(i)
       /\ PositionSet(gs[i + 19]) = BoxOf(i \div 3, i % 3)
  /\ \A i, j \in DOMAIN gs : i # j => PositionSet(gs[i]) # PositionSet(gs[j])

C6_StandardHas27 ==
  (pc = "built" /\ origin = "standard") => StandardGroups(puzzle.groups)

C6_DiagAddsTwo ==
  AddDiagGroups =>
    LET old == builder.groups
        new == builder'.groups
    IN  /\ Len(new) = Len(old) + 2
        /\ SubSeq(new, 1, Len(old)) = old
        /\ PositionSet(new[Len(old) + 1]) = MainDiagonal
        /\ PositionSet(new[Len(old) + 2]) = AntiDiagonal

\* C6: a puzzle of Puzzle::standard has exactly 27 groups, the 9 rows, then the 9
\* columns, then the 9 boxes, pairwise different as position sets, whatever the
\* clues; add_diag_groups appends exactly 2 groups, the main and the anti
\* diagonal.
C6_Groups == []C6_StandardHas27 /\ [][C6_DiagAddsTwo]_vars

\* add_diag_groups has acted on the 27 groups of the standard variant.
C6_Witness ==
  /\ pc = "building"
  /\ Len(builder.groups) = 29
  /\ StandardGroups(SubSeq(builder.groups, 1, 27))
  /\ PositionSet(builder.groups[28]) = MainDiagonal
  /\ PositionSet(builder.groups[29]) = AntiDiagonal

ReturnsGroup == done /\ call.fn \in {"row", "col", "cell", "diag", "get_group"}

\* C7 (as claimed): every Group created holds exactly 9 positions, none repeated.
C7_NineDistinctPositions ==
  ReturnsGroup => Len(retGroup.positions) = 9 /\ NoRepeat(retGroup.positions)

\* C8 (as claimed): every Position constructed has row and col in 0..9.
C8_PositionsInRange ==
  ReturnsGroup => \A p \in Range(retGroup.positions) : p.row \in 0..8 /\ p.col \in 0..8

\* C9: at every position of the grid the Row, Column and Cell constraints return
\* one group of the position's row, column or box, which contains the position;
\* the Diagonal constraint returns the main diagonal's positions exactly when
\* row = col, the anti diagonal's exactly when row + col = 8, and no position
\* when neither holds.
C9_GetGroup ==
  (done /\ call.fn = "get_group") =>
    LET pos == call.pos
        ps == retGroup.positions
    IN  /\ call.kind = "Row" => Len(ps) = 9 /\ pos \in Range(ps) /\ Range(ps) = RowOf(pos.row)
        /\ call.kind = "Column" => Len(ps) = 9 /\ pos \in Range(ps) /\ Range(ps) = ColOf(pos.col)
        /\ call.kind = "Cell" =>
             Len(ps) = 9 /\ pos \in Range(ps) /\ Range(ps) = BoxOf(pos.row \div 3, pos.col \div 3)
        /\ call.kind = "Diagonal" =>
             /\ Range(ps) = (IF pos.row = pos.col THEN MainDiagonal ELSE {})
                              \cup (IF pos.row + pos.col = 8 THEN AntiDiagonal ELSE {})
             /\ (pos.row # pos.col /\ pos.row + pos.col # 8) => ps = <<>>

\* The Diagonal constraint has answered at the centre, which lies on both diagonals.
C9_Witness ==
  /\ done /\ call.fn = "get_group" /\ call.kind = "Diagonal"
  /\ call.pos = Position(4, 4)
  /\ Range(retGroup.positions) = MainDiagonal \cup AntiDiagonal

SharesGroup(kind, p, q) ==
  CASE kind = "Row" -> p.row = q.row
    [] kind = "Column" -> p.col = q.col
    [] kind = "Cell" -> SameBox(p, q)
    [] kind = "Diagonal" ->
         \/ p \in MainDiagonal /\ q \in MainDiagonal
         \/ p \in AntiDiagonal /\ q \in AntiDiagonal

\* C10: apply(value, pos) returns a map whose keys are exactly the positions of
\* get_group(pos) other than pos, each mapped to [value]; pos is no key, every key
\* shares the constraint's group with pos; there are 8 keys for Row, Column and
\* Cell and none for Diagonal at a position off both diagonals.
C10_Apply ==
  (done /\ call.fn = "apply") =>
    LET pos == call.pos
        keys == DOMAIN retMap
    IN  /\ keys = Range(get_group(call.kind, pos).positions) \ {pos}
        /\ \A k \in keys : retMap[k] = <<call.value>>
        /\ pos \notin keys
        /\ \A k \in keys : SharesGroup(call.kind, pos, k)
        /\ call.kind \in {"Row", "Column", "Cell"} => Cardinality(keys) = 8
        /\ (call.kind = "Diagonal" /\ pos \notin MainDiagonal \cup AntiDiagonal)
             => keys = {}

\* The Cell constraint has applied a value at the centre: the 8 other cells of its box.
C10_Witness ==
  /\ done /\ call.fn = "apply" /\ call.kind = "Cell"
  /\ call.pos = Position(4, 4)
  /\ DOMAIN retMap = BoxOf(1, 1) \ {Position(4, 4)}
  /\ \A k \in DOMAIN retMap : retMap[k] = <<call.value>>

====
